---- MODULE Spec2Model ----
(***************************************************************************)
(* A model of the data pipeline and of the hand-written encoders of        *)
(* python-chebai:                                                          *)
(*   - RaggedCollater.__call__           (chebai/preprocessing/collate.py) *)
(*   - XYBaseDataModule.__init__/dataloader, MergedDataset.dataloader      *)
(*                                 (chebai/preprocessing/datasets/base.py) *)
(*   - ChemYK.forward / merge / attention           (chem/models/chemyk.py)*)
(*   - ElectraPre._get_data_and_labels           (chebai/models/electra.py)*)
(* Each component has its own specification; the variables of the other    *)
(* components rest at their idle values.                                   *)
(***************************************************************************)
EXTENDS Integers, Sequences, FiniteSets, Bags, TLC

VARIABLES
  \* RaggedCollater
  data,                 \* the batch handed to the collater: a list of (x, y) pairs
  xy,                   \* the XYData it returned
  coll_pc,              \* "call" | "returned" | "ValueError"
  \* XYBaseDataModule
  constructed,          \* "no" | "yes" | "AssertionError"
  label_filter,         \* self.label_filter
  balance_after_filter, \* self.balance_after_filter, a ratio <<num, den>> or None
  data_limit,           \* self.data_limit
  processed,            \* the rows stored in the processed file of the kind
  shuffled,             \* local `dataset` of dataloader before the data_limit cut
  dataset,              \* the dataset handed to DataLoader
  dl_status,            \* outcome of the last dataloader call: "ok" | "IndexError"
  calls,                \* number of dataloader calls so far (counted up to MaxCalls)
  \* MergedDataset
  subsets,              \* per subset, per kind: the rows of its processed file
  limits,               \* what the limits property returns: None or Some(list)
  m_dataset,            \* the dataset MergedDataset.dataloader hands to DataLoader
  m_status,             \* outcome of the last MergedDataset.dataloader call
  \* ChemYK
  max_width,            \* m.shape[1]
  batch_size,           \* m.shape[0]
  h,                    \* the list of levels
  width,                \* loop variable of forward
  s_exp,                \* exp of the score self.s gives candidate k of element b
  at,                   \* attention weights of the last merge
  yk_pc,                \* "embed" | "loop" | "done"
  yk_out,               \* m[:, 0], the value fed to self.output
  \* ElectraPre
  batch_x,              \* batch.x
  row_i,                \* index of the row being processed
  tok_i,                \* index of the token being processed
  t, t0, l,             \* locals of the inner loop
  el_data, el_labels,   \* locals `data`, `labels` of the row
  batch_data, batch_labels,
  el_pc                 \* "row" | "token" | "while" | "append" | "done"

collVars == <<data, xy, coll_pc>>
dmVars == <<constructed, label_filter, balance_after_filter, data_limit,
            processed, shuffled, dataset, dl_status, calls>>
mdVars == <<subsets, limits, m_dataset, m_status>>
ykVars == <<max_width, batch_size, h, width, s_exp, at, yk_pc, yk_out>>
elVars == <<batch_x, row_i, tok_i, t, t0, l, el_data, el_labels,
            batch_data, batch_labels, el_pc>>
vars == <<collVars, dmVars, mdVars, ykVars, elVars>>

\* Optional values: None is the empty tuple, a value v that is set is <<v>>
\* (a ratio that is set is the pair <<numerator, denominator>>).
None == <<>>
Some(v) == <<v>>
Val(o) == o[1]

----------------------------------------------------------------------------
(* Generic helpers: Python built-ins used by the code.                      *)

\* The sequences over S of length lo..hi.
SeqsOf(S, lo, hi) == UNION {[1..n -> S] : n \in lo..hi}

Max(S) == CHOOSE m \in S : \A e \in S : e <= m

\* min(a, b)
Min2(a, b) == IF a <= b THEN a ELSE b

\* s[:n] of a Python list, n an int (a negative n counts from the end).
SliceTo(s, n) ==
  LET stop == IF n >= 0 THEN Min2(n, Len(s))
              ELSE IF Len(s) + n >= 0 THEN Len(s) + n ELSE 0
  IN  SubSeq(s, 1, stop)

\* s[n:] of a Python list, n >= 0.
SliceFrom(s, n) == SubSeq(s, Min2(n, Len(s)) + 1, Len(s))

\* The multiset of the elements of a sequence.
BagOfSeq(s) ==
  LET elems == {s[i] : i \in 1..Len(s)}
  IN  [e \in elems |-> Cardinality({i \in 1..Len(s) : s[i] = e})]

\* The permutations of a sequence, as the sequences with the same multiset.
Shuffles(s) ==
  {[i \in 1..Len(s) |-> s[p[i]]] :
     p \in {q \in [1..Len(s) -> 1..Len(s)] :
              \A i, j \in 1..Len(s) : q[i] = q[j] => i = j}}

----------------------------------------------------------------------------
(* RaggedCollater                                                           *)

MaxLen == 2          \* longest x of a batch
MaxBatch == 2        \* largest batch
Tokens == {0, 1}     \* token ids (0 is also the padding value)
YSet == {<<0>>, <<1, 0>>}

\* x, y = zip(*data)
ZipX(d) == [i \in 1..Len(d) |-> d[i][1]]
ZipY(d) == [i \in 1..Len(d) |-> d[i][2]]

\* A padding that cuts every sequence to the length of the first one.
pad_sequence_first(seqs) ==
  [i \in 1..Len(seqs) |->
     [j \in 1..Len(seqs[1]) |-> IF j <= Len(seqs[i]) THEN seqs[i][j] ELSE 0]]

\* torch pad_sequence(..., batch_first=True): every sequence followed by
\* zeros up to the length of the longest.
pad_sequence(seqs) ==
  LET max_len == Max({Len(seqs[i]) : i \in 1..Len(seqs)})
  IN  [i \in 1..Len(seqs) |->
         seqs[i] \o [j \in 1..(max_len - Len(seqs[i])) |-> 0]]

RaggedCollater(d) ==
  LET x == ZipX(d)
      y == ZipY(d)
  IN  [x |-> pad_sequence(x),
       y |-> pad_sequence(y),
       lens |-> [i \in 1..Len(x) |-> Len(x[i])]]

\* The call of the collater; zip(*data) of an empty batch cannot be unpacked.
Collate ==
  /\ coll_pc = "call"
  /\ IF data = <<>>
       THEN coll_pc' = "ValueError" /\ UNCHANGED xy
       ELSE coll_pc' = "returned" /\ xy' = RaggedCollater(data)
  /\ UNCHANGED <<data, dmVars, mdVars, ykVars, elVars>>

----------------------------------------------------------------------------
(* XYBaseDataModule                                                         *)

MaxRows == 3         \* most rows of a processed file
MaxCalls == 2        \* most dataloader calls that are counted

\* Rows of a processed file: features and a list of labels, one per class.
RowSet ==
  {[features |-> 1, labels |-> <<TRUE, FALSE>>],
   [features |-> 2, labels |-> <<FALSE, TRUE>>],
   [features |-> 3, labels |-> <<TRUE, TRUE>>],
   [features |-> 4, labels |-> <<FALSE, FALSE>>],
   [features |-> 1, labels |-> <<FALSE, FALSE>>]}

FilterSet == {None, Some(0), Some(1), Some(-1), Some(2)}
\* balance_after_filter as a ratio <<numerator, denominator>>
RatioSet == {None, <<0, 1>>, <<1, 2>>, <<1, 1>>, <<3, 2>>, <<-1, 1>>}
LimitSet == {None, Some(1)}

\* lst[k] of a Python list is defined for -len <= k < len.
IndexOk(lst, k) == -Len(lst) <= k /\ k < Len(lst)
PyIndex(lst, k) == IF k >= 0 THEN lst[k + 1] ELSE lst[Len(lst) + k + 1]

\* int(x) of the ratio n/d (d > 0): truncation towards zero.
IntOf(n, d) == IF n >= 0 THEN n \div d ELSE -((-n) \div d)

\* The assertion of __init__ (lines 40-42).
InitAssertion(lf, baf) == (baf # None) \/ (lf = None)

\* __init__: the fields are assigned in source order, so a failed assertion
\* leaves data_limit and label_filter set and balance_after_filter unset.
Construct(lf, baf, dl) ==
  /\ constructed = "no"
  /\ data_limit' = dl
  /\ label_filter' = lf
  /\ IF InitAssertion(lf, baf)
       THEN constructed' = "yes" /\ balance_after_filter' = baf
       ELSE constructed' = "AssertionError" /\ UNCHANGED balance_after_filter
  /\ UNCHANGED <<processed, shuffled, dataset, dl_status, calls>>
  /\ UNCHANGED <<collVars, mdVars, ykVars, elVars>>

\* A filter that keeps the first label whatever label_filter is.
filter_labels_first(row, k) == [row EXCEPT !.labels = <<row.labels[1]>>]

\* _filter_labels: the labels list is replaced by the one label at label_filter.
filter_labels(row, k) == [row EXCEPT !.labels = <<PyIndex(row.labels, k)>>]

\* negative_length without the balancing ratio.
negative_length_unbalanced(original_len, n_pos, baf) == original_len

\* negative_length = min(original_len, int(len(positives) * balance_after_filter))
negative_length(original_len, n_pos, baf) ==
  Min2(original_len, IntOf(n_pos * baf[1], baf[2]))

\* torch.load: every call deserialises the file into fresh rows.
torch_load(file) == file

\* Lines 80-91: the dataset before the shuffle.
Balanced(loaded, k, baf) ==
  LET original_len == Len(loaded)
      filtered == [i \in 1..Len(loaded) |-> filter_labels(loaded[i], k)]
      positives == SelectSeq(filtered, LAMBDA r : r.labels[1])
      negatives == SelectSeq(filtered, LAMBDA r : ~r.labels[1])
  IN  IF baf # None
        THEN positives \o
             SliceTo(negatives, negative_length(original_len, Len(positives), baf))
        ELSE positives \o negatives

\* dataset[: self.data_limit]
Limited(ds) == IF data_limit # None THEN SliceTo(ds, Val(data_limit)) ELSE ds

dataloader ==
  /\ constructed = "yes"
  /\ calls' = Min2(calls + 1, MaxCalls)
  /\ LET loaded == torch_load(processed)
     IN  IF label_filter # None
           THEN IF \E i \in 1..Len(loaded) :
                     ~IndexOk(loaded[i].labels, Val(label_filter))
                  THEN /\ dl_status' = "IndexError"
                       /\ shuffled' = <<>>
                       /\ dataset' = <<>>
                  ELSE \E s \in Shuffles(Balanced(loaded, Val(label_filter),
                                                  balance_after_filter)) :
                         /\ shuffled' = s
                         /\ dataset' = Limited(s)
                         /\ dl_status' = "ok"
           ELSE /\ shuffled' = loaded
                /\ dataset' = Limited(loaded)
                /\ dl_status' = "ok"
  /\ UNCHANGED <<constructed, label_filter, balance_after_filter, data_limit,
                 processed>>
  /\ UNCHANGED <<collVars, mdVars, ykVars, elVars>>

----------------------------------------------------------------------------
(* MergedDataset                                                            *)

NumSubsets == 2      \* len(MERGED) of the subclass
MaxMRows == 2        \* most rows of a subset's processed file

MRowSet ==
  {[features |-> 1, labels |-> <<TRUE>>, ident |-> 10],
   [features |-> 2, labels |-> <<FALSE>>, ident |-> 20]}

\* One limit (None or a row count) per subset.
MLimSet == {None} \cup {Some(n) : n \in 0..MaxMRows}

\* The limits property of the class (lines 242-244).
DefaultLimits == None

\* zip(a, b) stops at the shorter of the two.
ZipLen(a, b) == Min2(Len(a), Len(b))

\* _process_data: a new dict with the features, labels and ident of the row.
process_data(subset_id, d) ==
  [features |-> d.features, labels |-> d.labels, ident |-> d.ident]

RECURSIVE MergedFrom(_, _, _)
\* The list comprehension of lines 205-209, from subset i on.
MergedFrom(subdatasets, lims, i) ==
  IF i > ZipLen(subdatasets, lims) THEN <<>>
  ELSE LET sub == subdatasets[i]
           lim == lims[i]
           part == IF lim = None THEN sub ELSE SliceTo(sub, Val(lim))
       IN  [j \in 1..Len(part) |-> process_data(i - 1, part[j])]
             \o MergedFrom(subdatasets, lims, i + 1)

\* MergedDataset.dataloader: zip(subdatasets, self.limits) raises TypeError
\* when limits is None, which is not iterable.
merged_dataloader ==
  /\ m_status = "None"
  /\ LET subdatasets == [i \in 1..Len(subsets) |-> torch_load(subsets[i])]
     IN  IF limits = None
           THEN m_status' = "TypeError" /\ UNCHANGED m_dataset
           ELSE /\ m_status' = "ok"
                /\ m_dataset' = MergedFrom(subdatasets, Val(limits), 1)
  /\ UNCHANGED <<subsets, limits>>
  /\ UNCHANGED <<collVars, dmVars, ykVars, elVars>>

----------------------------------------------------------------------------
(* ChemYK                                                                   *)

MaxWidth == 4        \* longest (padded) token sequence
MaxYKBatch == 2      \* largest batch
ExpSet == {1, 2}     \* values of exp(score)

\* The dimension attention() takes its softmax over (line 53); the tensor
\* self.s(parts) has the dimensions (split, batch element, position, 1).
AttentionDim == 1

RECURSIVE SumSeq(_)
SumSeq(q) == IF q = <<>> THEN 0 ELSE q[1] + SumSeq(Tail(q))

\* self.embedding(data.x): position p (0-based) holds the embedding of token p.
Embedding(n) == [p \in 1..n |-> [toks |-> {p - 1}, ops |-> <<>>]]

\* Tensor.flip(0) without the reversal.
flip_none(stack) == stack

\* Tensor.flip(0): the stack in reverse order.
flip(stack) == [k \in 1..Len(stack) |-> stack[Len(stack) + 1 - k]]

\* ls = [h[i][:, :(max_width-width)] for i in range(width)]
LeftStack(hh, n, w) == [k \in 1..w |-> SliceTo(hh[k], n - w)]

\* rs = [h[i][:, (width-i):] for i in range(0, width)]; r = stack(rs).flip(0)
RightStack(hh, n, w) == flip([k \in 1..w |-> SliceFrom(hh[k], w - (k - 1))])

\* merge and the sum of attention over dim 0: entry p of the new level is
\* computed from the candidates (l[k][p], r[k][p]) of every split k.
merge(lft, rgt) ==
  [p \in 1..Len(lft[1]) |->
     [toks |-> UNION {lft[k][p].toks \cup rgt[k][p].toks : k \in 1..Len(lft)},
      ops |-> [k \in 1..Len(lft) |-> <<lft[k][p].toks, rgt[k][p].toks>>]]]

\* torch.softmax(e, dim) of the scores whose exponentials are e[k][b][p],
\* as fractions <<numerator, denominator>>.
Softmax(e, dim) ==
  [k \in 1..Len(e) |-> [b \in 1..Len(e[k]) |-> [p \in 1..Len(e[k][b]) |->
     <<e[k][b][p],
       CASE dim = 0 -> SumSeq([kk \in 1..Len(e) |-> e[kk][b][p]])
         [] dim = 1 -> SumSeq([bb \in 1..Len(e[k]) |-> e[k][bb][p]])
         [] OTHER   -> SumSeq([pp \in 1..Len(e[k][b]) |-> e[k][b][pp]])>>]]]

\* at = torch.softmax(self.s(parts), 1)
AttentionWeights(n, w) ==
  Softmax([k \in 1..w |-> [b \in 1..batch_size |-> [p \in 1..(n - w) |->
             s_exp[b][k]]]], AttentionDim)

\* m = self.embedding(data.x); max_width = m.shape[1]; h = [m]
Embed ==
  /\ yk_pc = "embed"
  /\ h' = <<Embedding(max_width)>>
  /\ width' = 1
  /\ yk_pc' = "loop"
  /\ UNCHANGED <<max_width, batch_size, s_exp, at, yk_out>>
  /\ UNCHANGED <<collVars, dmVars, mdVars, elVars>>

\* One iteration of the loop of forward (lines 37-44).
MergeStep ==
  /\ yk_pc = "loop"
  /\ width < max_width
  /\ LET lft == LeftStack(h, max_width, width)
         rgt == RightStack(h, max_width, width)
     IN  /\ h' = Append(h, merge(lft, rgt))
         /\ at' = AttentionWeights(max_width, width)
  /\ width' = width + 1
  /\ UNCHANGED <<max_width, batch_size, s_exp, yk_pc, yk_out>>
  /\ UNCHANGED <<collVars, dmVars, mdVars, elVars>>

\* return self.output(m[:, 0]): m is the level computed last.
Output ==
  /\ yk_pc = "loop"
  /\ width >= max_width
  /\ yk_out' = h[Len(h)][1]
  /\ yk_pc' = "done"
  /\ UNCHANGED <<max_width, batch_size, h, width, s_exp, at>>
  /\ UNCHANGED <<collVars, dmVars, mdVars, elVars>>

----------------------------------------------------------------------------
(* ElectraPre._get_data_and_labels                                          *)

MaxRowLen == 2       \* longest row of batch.x
Vocab == {1, 2, 3}   \* token ids
ElBatchSizes == {1, 2}

\* random.choice drawing from the whole vocabulary.
random_choice_vocab(row) == Vocab

\* random.choice(row): any element of the row.
random_choice(row) == {row[i] : i \in 1..Len(row)}

\* vocabular = set(row)
vocabular(row) == {row[i] : i \in 1..Len(row)}

\* not all(x == t for x in vocabular)
NotAllEqual(row, tok) == ~(\A x \in vocabular(row) : x = tok)

\* for row in batch.x: the next row is started, or the batch is returned.
RowStart ==
  /\ el_pc = "row"
  /\ IF row_i <= Len(batch_x)
       THEN /\ el_data' = <<>>
            /\ el_labels' = <<>>
            /\ tok_i' = 1
            /\ el_pc' = "token"
       ELSE /\ el_pc' = "done"
            /\ UNCHANGED <<el_data, el_labels, tok_i>>
  /\ UNCHANGED <<batch_x, row_i, t, t0, l, batch_data, batch_labels>>
  /\ UNCHANGED <<collVars, dmVars, mdVars, ykVars>>

\* for t in list(row): lines 37-41; `below_p` is random.random() < self._p.
TokenStep(below_p) ==
  /\ el_pc = "token"
  /\ IF tok_i <= Len(batch_x[row_i])
       THEN /\ t' = batch_x[row_i][tok_i]
            /\ IF NotAllEqual(batch_x[row_i], t') /\ below_p
                 THEN l' = 1 /\ t0' = t' /\ el_pc' = "while"
                 ELSE l' = 0 /\ UNCHANGED t0 /\ el_pc' = "append"
            /\ UNCHANGED <<row_i, batch_data, batch_labels>>
       ELSE /\ batch_data' = Append(batch_data, el_data)
            /\ batch_labels' = Append(batch_labels, el_labels)
            /\ row_i' = row_i + 1
            /\ el_pc' = "row"
            /\ UNCHANGED <<t, t0, l>>
  /\ UNCHANGED <<batch_x, tok_i, el_data, el_labels>>
  /\ UNCHANGED <<collVars, dmVars, mdVars, ykVars>>

\* while t0 == t: t0 = random.choice(row); then t = t0 (lines 42-47).
While ==
  /\ el_pc = "while"
  /\ IF t0 = t
       THEN /\ t0' \in random_choice(batch_x[row_i])
            /\ UNCHANGED <<t, el_pc>>
       ELSE /\ t' = t0
            /\ el_pc' = "append"
            /\ UNCHANGED t0
  /\ UNCHANGED <<batch_x, row_i, tok_i, l, el_data, el_labels,
                 batch_data, batch_labels>>
  /\ UNCHANGED <<collVars, dmVars, mdVars, ykVars>>

\* data.append(t); labels.append(l)
AppendToken ==
  /\ el_pc = "append"
  /\ el_data' = Append(el_data, t)
  /\ el_labels' = Append(el_labels, l)
  /\ tok_i' = tok_i + 1
  /\ el_pc' = "token"
  /\ UNCHANGED <<batch_x, row_i, t, t0, l, batch_data, batch_labels>>
  /\ UNCHANGED <<collVars, dmVars, mdVars, ykVars>>

------------------------------------------------------------------------

----------------------------------------------------------------------------
(* Specifications, one per component: the component starts from its inputs, *)
(* the variables of the others rest at their idle values.                   *)

\* Any batch of at most MaxBatch pairs (x, y), the collater not yet called.
InitCollate ==
  /\ data \in SeqsOf(SeqsOf(Tokens, 0, MaxLen) \X YSet, 0, MaxBatch)
  /\ xy = [x |-> <<>>, y |-> <<>>, lens |-> <<>>]
  /\ coll_pc = "call"
  /\ constructed = "no"
  /\ label_filter = None
  /\ balance_after_filter = None
  /\ data_limit = None
  /\ processed = <<>>
  /\ shuffled = <<>>
  /\ dataset = <<>>
  /\ dl_status = "None"
  /\ calls = 0
  /\ subsets = <<>>
  /\ limits = None
  /\ m_dataset = <<>>
  /\ m_status = "None"
  /\ max_width = 1
  /\ batch_size = 1
  /\ s_exp = <<>>
  /\ h = <<>>
  /\ width = 0
  /\ at = <<>>
  /\ yk_pc = "embed"
  /\ yk_out = [toks |-> {}, ops |-> <<>>]
  /\ batch_x = <<>>
  /\ row_i = 1
  /\ tok_i = 1
  /\ t = 0
  /\ t0 = 0
  /\ l = 0
  /\ el_data = <<>>
  /\ el_labels = <<>>
  /\ batch_data = <<>>
  /\ batch_labels = <<>>
  /\ el_pc = "row"

CollNext == Collate
SpecCollate == InitCollate /\ [][CollNext]_vars

\* Any processed file of at most MaxRows rows, the data module not yet built.
InitData ==
  /\ data = <<>>
  /\ xy = [x |-> <<>>, y |-> <<>>, lens |-> <<>>]
  /\ coll_pc = "call"
  /\ constructed = "no"
  /\ label_filter = None
  /\ balance_after_filter = None
  /\ data_limit = None
  /\ processed \in SeqsOf(RowSet, 0, MaxRows)
  /\ shuffled = <<>>
  /\ dataset = <<>>
  /\ dl_status = "None"
  /\ calls = 0
  /\ subsets = <<>>
  /\ limits = None
  /\ m_dataset = <<>>
  /\ m_status = "None"
  /\ max_width = 1
  /\ batch_size = 1
  /\ s_exp = <<>>
  /\ h = <<>>
  /\ width = 0
  /\ at = <<>>
  /\ yk_pc = "embed"
  /\ yk_out = [toks |-> {}, ops |-> <<>>]
  /\ batch_x = <<>>
  /\ row_i = 1
  /\ tok_i = 1
  /\ t = 0
  /\ t0 = 0
  /\ l = 0
  /\ el_data = <<>>
  /\ el_labels = <<>>
  /\ batch_data = <<>>
  /\ batch_labels = <<>>
  /\ el_pc = "row"

DmNext ==
  \/ \E lf \in FilterSet, baf \in RatioSet, dl \in LimitSet : Construct(lf, baf, dl)
  \/ dataloader
SpecData == InitData /\ [][DmNext]_vars

\* Any processed files of the subsets; limits is what the class returns
\* (DefaultLimits) or what a subclass overrides it with, one limit per subset.
InitMerged ==
  /\ data = <<>>
  /\ xy = [x |-> <<>>, y |-> <<>>, lens |-> <<>>]
  /\ coll_pc = "call"
  /\ constructed = "no"
  /\ label_filter = None
  /\ balance_after_filter = None
  /\ data_limit = None
  /\ processed = <<>>
  /\ shuffled = <<>>
  /\ dataset = <<>>
  /\ dl_status = "None"
  /\ calls = 0
  /\ subsets \in [1..NumSubsets -> SeqsOf(MRowSet, 0, MaxMRows)]
  /\ limits \in {DefaultLimits} \cup {Some(ls) : ls \in [1..NumSubsets -> MLimSet]}
  /\ m_dataset = <<>>
  /\ m_status = "None"
  /\ max_width = 1
  /\ batch_size = 1
  /\ s_exp = <<>>
  /\ h = <<>>
  /\ width = 0
  /\ at = <<>>
  /\ yk_pc = "embed"
  /\ yk_out = [toks |-> {}, ops |-> <<>>]
  /\ batch_x = <<>>
  /\ row_i = 1
  /\ tok_i = 1
  /\ t = 0
  /\ t0 = 0
  /\ l = 0
  /\ el_data = <<>>
  /\ el_labels = <<>>
  /\ batch_data = <<>>
  /\ batch_labels = <<>>
  /\ el_pc = "row"

MdNext == merged_dataloader
SpecMerged == InitMerged /\ [][MdNext]_vars

\* Any batch shape and any scores, forward not yet started.
InitChemYK ==
  /\ data = <<>>
  /\ xy = [x |-> <<>>, y |-> <<>>, lens |-> <<>>]
  /\ coll_pc = "call"
  /\ constructed = "no"
  /\ label_filter = None
  /\ balance_after_filter = None
  /\ data_limit = None
  /\ processed = <<>>
  /\ shuffled = <<>>
  /\ dataset = <<>>
  /\ dl_status = "None"
  /\ calls = 0
  /\ subsets = <<>>
  /\ limits = None
  /\ m_dataset = <<>>
  /\ m_status = "None"
  /\ max_width \in 1..MaxWidth
  /\ batch_size \in 1..MaxYKBatch
  /\ s_exp \in [1..batch_size -> [1..(MaxWidth - 1) -> ExpSet]]
  /\ h = <<>>
  /\ width = 0
  /\ at = <<>>
  /\ yk_pc = "embed"
  /\ yk_out = [toks |-> {}, ops |-> <<>>]
  /\ batch_x = <<>>
  /\ row_i = 1
  /\ tok_i = 1
  /\ t = 0
  /\ t0 = 0
  /\ l = 0
  /\ el_data = <<>>
  /\ el_labels = <<>>
  /\ batch_data = <<>>
  /\ batch_labels = <<>>
  /\ el_pc = "row"

YkNext == Embed \/ MergeStep \/ Output
SpecChemYK == InitChemYK /\ [][YkNext]_vars

\* batch.x is a tensor: all its rows have the same length.
InitElectra ==
  /\ data = <<>>
  /\ xy = [x |-> <<>>, y |-> <<>>, lens |-> <<>>]
  /\ coll_pc = "call"
  /\ constructed = "no"
  /\ label_filter = None
  /\ balance_after_filter = None
  /\ data_limit = None
  /\ processed = <<>>
  /\ shuffled = <<>>
  /\ dataset = <<>>
  /\ dl_status = "None"
  /\ calls = 0
  /\ subsets = <<>>
  /\ limits = None
  /\ m_dataset = <<>>
  /\ m_status = "None"
  /\ max_width = 1
  /\ batch_size = 1
  /\ s_exp = <<>>
  /\ h = <<>>
  /\ width = 0
  /\ at = <<>>
  /\ yk_pc = "embed"
  /\ yk_out = [toks |-> {}, ops |-> <<>>]
  /\ batch_x \in UNION {SeqsOf([1..n -> Vocab], 1, Max(ElBatchSizes)) :
                          n \in 1..MaxRowLen}
  /\ row_i = 1
  /\ tok_i = 1
  /\ t = 0
  /\ t0 = 0
  /\ l = 0
  /\ el_data = <<>>
  /\ el_labels = <<>>
  /\ batch_data = <<>>
  /\ batch_labels = <<>>
  /\ el_pc = "row"

ElNext ==
  \/ RowStart
  \/ \E below_p \in BOOLEAN : TokenStep(below_p)
  \/ While
  \/ AppendToken
SpecElectra == InitElectra /\ [][ElNext]_vars

----------------------------------------------------------------------------
(* The claims.                                                              *)

\* C1: every successfully constructed data module that has
\* balance_after_filter set also has label_filter set (balancing without a
\* filter fails the assertion of the constructor).
C1_BalanceRequiresFilter ==
  (constructed = "yes" /\ balance_after_filter # None) => label_filter # None

\* C2: for a non-empty batch RaggedCollater returns one row per pair in input
\* order; row i of x is x_i followed only by zeros up to the length of the
\* longest x, and lens[i] is the length of x_i, so x_i is the first lens[i]
\* entries of row i.
C2_RaggedRows ==
  coll_pc = "returned" =>
    LET longest == Max({Len(data[i][1]) : i \in 1..Len(data)})
    IN  /\ Len(xy.x) = Len(data)
        /\ Len(xy.lens) = Len(data)
        /\ \A i \in 1..Len(data) :
             /\ xy.lens[i] = Len(data[i][1])
             /\ Len(xy.x[i]) = longest
             /\ SubSeq(xy.x[i], 1, xy.lens[i]) = data[i][1]
             /\ \A j \in (xy.lens[i] + 1)..longest : xy.x[i][j] = 0

\* A batch of two x of different non-zero lengths has been collated.
C2_Witness ==
  /\ coll_pc = "returned"
  /\ Len(data) = 2
  /\ Len(data[1][1]) >= 1
  /\ Len(data[1][1]) < Len(data[2][1])
  /\ Len(xy.x[1]) > xy.lens[1]

\* C3: level w of ChemYK.forward holds n-w entries, entry p representing the
\* span [p, p+w]; for w >= 1 and split k in 0..w-1 its left operand is the
\* entry of [p, p+k] and its right operand the entry of [p+k+1, p+w]; the
\* value fed to the output layer is the entry of the whole sequence [0, n-1].
C3_BottomUp ==
  /\ \A w \in 0..(Len(h) - 1) :
       /\ Len(h[w + 1]) = max_width - w
       /\ \A p \in 0..(max_width - w - 1) :
            LET e == h[w + 1][p + 1]
            IN  /\ e.toks = p..(p + w)
                /\ Len(e.ops) = w
                /\ \A k \in 0..(w - 1) :
                     e.ops[k + 1] = <<p..(p + k), (p + k + 1)..(p + w)>>
  /\ yk_pc = "done" =>
       /\ Len(h) = max_width
       /\ yk_out = h[max_width][1]
       /\ yk_out.toks = 0..(max_width - 1)
       /\ (max_width = 1 => yk_out = Embedding(1)[1])

\* forward has returned for a sequence of at least three tokens.
C3_Witness ==
  /\ yk_pc = "done"
  /\ max_width >= 3
  /\ Len(yk_out.ops) = max_width - 1

\* C4: with label_filter = k every row handed to the DataLoader has a labels
\* list of exactly one element, the label at index k of that row as stored in
\* the processed file, and unchanged features; on every call.
C4_FilteredRows ==
  (constructed = "yes" /\ label_filter # None /\ dl_status = "ok") =>
    LET k == Val(label_filter)
        stored == [i \in 1..Len(processed) |->
                     [features |-> processed[i].features,
                      labels |-> <<PyIndex(processed[i].labels, k)>>]]
    IN  /\ \A i \in 1..Len(dataset) : Len(dataset[i].labels) = 1
        /\ BagOfSeq(dataset) \sqsubseteq BagOfSeq(stored)

\* The second call of dataloader has handed over two rows filtered by label 1.
C4_Witness ==
  /\ constructed = "yes"
  /\ label_filter = Some(1)
  /\ dl_status = "ok"
  /\ calls >= 2
  /\ Len(dataset) >= 2

\* The rows of the file whose label at index k is v, filtered to that label.
RowsWithLabel(k, v) ==
  LET sel == SelectSeq(processed, LAMBDA r : PyIndex(r.labels, k) = v)
  IN  [i \in 1..Len(sel) |-> [features |-> sel[i].features, labels |-> <<v>>]]

\* C5: with label_filter set and balance_after_filter = r >= 0 the dataset
\* before data_limit is a permutation of all P positive rows plus the first
\* min(N, floor(P*r)) of the N negative rows in file order.
C5_Balanced ==
  (/\ constructed = "yes"
   /\ label_filter # None
   /\ balance_after_filter # None
   /\ dl_status = "ok") =>
    (balance_after_filter[1] >= 0 =>
       LET k == Val(label_filter)
           pos == RowsWithLabel(k, TRUE)
           neg == RowsWithLabel(k, FALSE)
           cap == (Len(pos) * balance_after_filter[1]) \div balance_after_filter[2]
           kept == SubSeq(neg, 1, Min2(Len(neg), cap))
       IN  /\ BagOfSeq(shuffled) = BagOfSeq(pos \o kept)
           /\ Len(SelectSeq(shuffled, LAMBDA r : r.labels[1])) = Len(pos)
           /\ Len(SelectSeq(shuffled, LAMBDA r : ~r.labels[1])) <= cap
           /\ (Len(pos) = 0 => shuffled = <<>>))

\* A call that kept only some of the negative rows.
C5_Witness ==
  /\ constructed = "yes"
  /\ label_filter # None
  /\ balance_after_filter # None
  /\ dl_status = "ok"
  /\ balance_after_filter[1] > 0
  /\ Len(SelectSeq(shuffled, LAMBDA r : r.labels[1])) >= 1
  /\ Len(SelectSeq(shuffled, LAMBDA r : ~r.labels[1])) >= 1
  /\ Len(shuffled) < Len(processed)

RECURSIVE SumFrac(_)
\* The sum of a sequence of fractions <<numerator, denominator>>.
SumFrac(q) ==
  IF q = <<>> THEN <<0, 1>>
  ELSE LET r == SumFrac(Tail(q))
       IN  <<q[1][1] * r[2] + r[1] * q[1][2], q[1][2] * r[2]>>

\* C6: for every batch element and span position the attention weights of
\* the w candidate splits summed by attention() are non-negative and sum
\* to 1.
C6_WeightsNormalisedOverSplits ==
  at # <<>> =>
    \A b \in 1..batch_size : \A p \in 1..Len(at[1][b]) :
      LET weights == [k \in 1..Len(at) |-> at[k][b][p]]
          total == SumFrac(weights)
      IN  /\ \A k \in 1..Len(at) : weights[k][1] >= 0 /\ weights[k][2] > 0
          /\ total[1] = total[2]

RECURSIVE ConcatAll(_)
ConcatAll(q) == IF q = <<>> THEN <<>> ELSE q[1] \o ConcatAll(Tail(q))

\* C7: MergedDataset.dataloader succeeds and builds the rows of every subset
\* in MERGED order and stored order, subset i cut to its first limits[i] rows
\* only when that limit is not None; with the default limits no row is dropped.
C7_MergedRows ==
  m_status # "None" =>
    /\ m_status = "ok"
    /\ m_dataset =
         ConcatAll([i \in 1..Len(subsets) |->
            IF limits = None THEN subsets[i]
            ELSE IF Val(limits)[i] = None THEN subsets[i]
            ELSE SubSeq(subsets[i], 1, Min2(Len(subsets[i]), Val(Val(limits)[i])))])

\* C8: every returned data row and label row has the length of its input
\* row; label 1 exactly where the data differs from the input, label 0 where
\* it is the input token; every data token occurs in the input row; a row of
\* equal tokens is returned unchanged with all labels 0.
C8_DataAndLabels ==
  /\ Len(batch_data) = Len(batch_labels)
  /\ Len(batch_data) <= Len(batch_x)
  /\ el_pc = "done" => Len(batch_data) = Len(batch_x)
  /\ \A r \in 1..Len(batch_data) :
       LET row == batch_x[r]
           d == batch_data[r]
           lb == batch_labels[r]
       IN  /\ Len(d) = Len(row)
           /\ Len(lb) = Len(row)
           /\ \A i \in 1..Len(row) :
                /\ lb[i] \in {0, 1}
                /\ lb[i] = 1 <=> d[i] # row[i]
                /\ lb[i] = 0 => d[i] = row[i]
                /\ \E j \in 1..Len(row) : d[i] = row[j]
           /\ (\A i, j \in 1..Len(row) : row[i] = row[j]) =>
                (d = row /\ \A i \in 1..Len(row) : lb[i] = 0)

\* A returned batch of two rows: the first with a replaced and a kept token,
\* the second of equal tokens.
C8_Witness ==
  /\ el_pc = "done"
  /\ Len(batch_x) = 2
  /\ Len(batch_x[1]) = 2
  /\ batch_labels[1] = <<1, 0>>
  /\ batch_x[2][1] = batch_x[2][2]

====
